---- MODULE Spec2Model ----
(***************************************************************************)
(* MAPnnet, src/map/train.py: the training-loop controller train(), the    *)
(* part of __main__ that prepares its arguments, and the diagnostic shape  *)
(* walk print_network_size().                                              *)
(***************************************************************************)
EXTENDS Integers, Sequences, FiniteSets, TLC

\* ---------------------------------------------------------------- bounds
MaxEpochs == 3
MaxFreq == 2
MaxBatches == 2
MaxLayers == 3
MaxTicks == 3
TicksPerSecond == 2

\* Per-batch loss values loss.item() may take (scaled to integers).
LossVals == {1, 2}

\* Values the entries of the layer vectors and of --debug-size are drawn from.
KernelVals == {2, 3}
StrideVals == {1, 2}
DilationVals == {1, 2}
PaddingVals == {0, 1}
FilterVals == {1, 2}
DebugSizes == {<<2, 6, 7, 8>>}

\* `index` before any for-loop has bound it (reading it is a NameError).
Unbound == -1

\* The only second datetime.now() shows during the call.
Stamp == "2019-01-01_00-00-00"

VARIABLES
    pc,             \* position in __main__ / train
    err,            \* the exception that ended the run, "none" if none
    \* arguments of train (fixed by the caller)
    epochs, update_freq, save_freq, save_freq_str, savepath, scheduler,
    load_model,     \* args.load_model: "None", a missing path, an existing path
    nTrain, nTest,  \* number of batches train_data_loader / test_data_loader yield
    \* locals of train
    i, index, tpos, epos,
    train_loss, total_loss, test_loss, save_folder,
    \* collaborators
    dirs,           \* run directories that exist under savepath
    saved,          \* torch.save calls, in order: the epoch number in each file name
    mkdirs,         \* successful os.makedirs calls of this run
    schedSteps,     \* model_scheduler.step() calls
    optSteps,       \* model_optimizer.step() calls
    fwd, bwd,       \* model(x) calls, loss.backward() calls
    zeroGrads,      \* model_optimizer.zero_grad() calls
    \* history
    evalLog,        \* 1-based epochs at which test_loss was assigned (line 139)
    epochLog,       \* per finished epoch, the number of training batches processed
    \* arguments and locals of print_network_size
    debug_size,     \* args.debug_size: <<>> for None, else <<t, x, y, z>>
    even_padding, conv_layers, filters,
    padding, dilation, kernel, stride,
    conv_layer_sizes, n_channels, layer,
    printed,        \* the lines reported so far
    \* two calls of train on one machine (lines 37-41, 92-96)
    sequential,     \* TRUE: the second call starts after the first has ended
    now,            \* the wall clock, in ticks
    runs,           \* per call: its arguments, its place, its locals
    folders,        \* the directories that exist
    ckpts           \* the checkpoint files written: folder, name, writer

vars == <<pc, err, epochs, update_freq, save_freq, save_freq_str, savepath,
          scheduler, load_model, nTrain, nTest, i, index, tpos, epos,
          train_loss, total_loss, test_loss, save_folder, dirs,
          saved, mkdirs, schedSteps, optSteps, fwd, bwd, zeroGrads, evalLog, epochLog,
          debug_size, even_padding, conv_layers, filters, padding, dilation,
          kernel, stride, conv_layer_sizes, n_channels, layer, printed,
          sequential, now, runs, folders, ckpts>>

\* The state of the model of two calls, which a single run never touches.
runVars == <<sequential, now, runs, folders, ckpts>>

\* The state of the shape walk, which train never touches.
geomVars == <<debug_size, even_padding, conv_layers, filters, padding,
              dilation, kernel, stride, conv_layer_sizes, n_channels, layer,
              printed>>

args == <<epochs, update_freq, save_freq, save_freq_str, savepath, scheduler,
          load_model, nTrain, nTest>>

\* ------------------------------------------------------------ pure helpers

\* Python's a % b for b /= 0: the result takes the sign of the divisor.
PyMod(a, b) == IF b > 0 THEN a % b ELSE 0 - ((0 - a) % (0 - b))

\* The 1-based epochs k in 1..n with k a multiple of f (f > 0), ascending.
Multiples(n, f) == SelectSeq([k \in 1..n |-> k], LAMBDA k: k % f = 0)

\* ---------------------------------------------------------- shape walk helpers

\* get_out_dims on one axis: floor((in + 2p - d(k-1) - 1)/s + 1).
OutDim(inp, p, d, k, s_) == ((inp + 2 * p - d * (k - 1) - 1) \div s_) + 1

\* get_out_dims(input, padding, dilation, kernel, stride) with each
\* parameter repeated over the three axes (np.repeat(v, 3), lines 367-370).
get_out_dims(dims, p, d, k, s_) == [a \in 1..3 |-> OutDim(dims[a], p, d, k, s_)]

\* .astype(np.int16), line 371.
ToInt16(v) == ((v + 32768) % 65536) - 32768

\* np.repeat(v, conv_layers) of a one-entry list, lines 353-360.
Broadcast(v, n) == IF Len(v) = 1 THEN [k \in 1..n |-> v[1]] ELSE v

\* Mutant of NextChannels: the filters are added, not multiplied.
NextChannelsAdded(c, f) == c + f

\* Line 374: n_channels[-1]*filters[i], on Python ints (no overflow).
NextChannels(c, f) == c * f

\* int(fc/2), line 389.
HalfOf(fc) == IF fc >= 0 THEN fc \div 2 ELSE 0 - ((0 - fc) \div 2)

\* ------------------------------------------------------- gates of the loop

\* Mutant of LoopContinues: the range runs one index too far.
LoopContinuesInclusive(i_, n) == i_ <= n

\* range(0, epochs), line 101: whether index i_ is still in the range.
LoopContinues(i_, n) == i_ < n

\* Mutant of EvalDue: the gate tests the 0-based index.
EvalDueOffByOne(i_, uf) == PyMod(i_, uf) = 0

\* Line 129: (i+1) % update_freq == 0 (update_freq /= 0).
EvalDue(i_, uf) == PyMod(i_ + 1, uf) = 0

\* Mutant of SaveDue: the gate tests the 0-based index.
SaveDueOffByOne(i_, sf, sp) == PyMod(i_, sf) = 0 /\ sp # "None"

\* Line 141: (i+1) % save_freq == 0 and savepath is not None (save_freq /= 0).
SaveDue(i_, sf, sp) == PyMod(i_ + 1, sf) = 0 /\ sp # "None"

\* Mutant of CheckpointName: the file name carries no epoch number.
CheckpointNameUnnumbered(i_) == 0 * i_

\* Mutant of CheckpointName: the file is named by the 0-based index.
CheckpointNameZeroBased(i_) == i_

\* Line 142: the number in 'epoch-{}.dat'.format(i+1).
CheckpointName(i_) == i_ + 1

\* Line 139: test_loss = total_loss/(index+1), kept as <<numerator, denominator>>.
EvalLoss(total, idx) == <<total, idx + 1>>

\* Mutant of SchedulerStep: the step is made without the None test.
SchedulerStepAlways(sch, n) == n + 1

\* Lines 103-104: model_scheduler.step() if model_scheduler is not None.
SchedulerStep(sch, n) == IF sch # "None" THEN n + 1 ELSE n

\* -------------------------------------------------------------- run folder

\* Line 93: datetime.now().strftime('%Y-%m-%d_%H-%M-%S'): the clock reading
\* cut to its whole second.
Strftime(t) == t \div TicksPerSecond

\* save_folder of a call without a savepath: lines 92-94 never bind it.
NoFolder == <<>>

\* Line 93: os.path.join(savepath, <stamp>).
Join(sp, stamp) == <<sp, stamp>>

\* Mutant of MakedirsRaises: os.makedirs(..., exist_ok=True).
MakedirsExistOk(folder, existing) == FALSE

\* Line 94: os.makedirs(save_folder) raises FileExistsError when the leaf
\* directory is there already; the test and the creation are one mkdir call.
MakedirsRaises(folder, existing) == folder \in existing

\* Mutant of OptimizerStep: two steps are applied for one batch.
OptimizerStepTwice(n) == n + 2

\* Line 123: model_optimizer.step(), once.
OptimizerStep(n) == n + 1

\* ------------------------------------------------------------------- Init
\* A list of 1..MaxLayers entries (argparse nargs='+'), each from V.
Vectors(V) == UNION {[1..n -> V] : n \in 1..MaxLayers}

\* A run without --debug-size: the arguments of train are the inputs.
\* __main__ (lines 492-504) passes no scheduler, may load the model from a
\* path, and passes --save-freq on as the str argparse made of it (type =
\* str, line 181); a caller of train itself passes ints and may pass a
\* scheduler factory.
TrainInputs ==
    /\ debug_size = <<>>
    /\ epochs \in 0..MaxEpochs
    /\ update_freq \in (0 - 1)..MaxFreq
    /\ save_freq \in (0 - 1)..MaxFreq
    /\ savepath \in {"None", "out"}
    /\ \/ /\ scheduler = "None"
          /\ load_model \in {"None", "missing", "exists"}
          /\ save_freq_str \in BOOLEAN
          /\ save_freq_str => save_freq >= 1
       \/ /\ scheduler = "factory"
          /\ load_model = "None"
          /\ save_freq_str = FALSE
    /\ nTrain \in 0..MaxBatches
    /\ nTest \in 0..MaxBatches
    /\ dirs \in (IF savepath = "None" THEN {{}} ELSE SUBSET {Stamp})
    /\ even_padding = FALSE
    /\ conv_layers = 1
    /\ filters = <<1>>
    /\ padding = <<0>> /\ dilation = <<1>> /\ kernel = <<3>> /\ stride = <<1>>

\* A run with --debug-size: the layer vectors are the inputs; at most one of
\* the four geometry vectors is given with more than one entry.
DebugInputs ==
    /\ debug_size \in DebugSizes
    /\ even_padding \in BOOLEAN
    /\ conv_layers \in 1..MaxLayers
    /\ filters \in Vectors(FilterVals)
    /\ \E long \in {"padding", "dilation", "kernel", "stride"} :
          /\ padding \in (IF long = "padding" THEN Vectors(PaddingVals)
                                              ELSE [1..1 -> PaddingVals])
          /\ dilation \in (IF long = "dilation" THEN Vectors(DilationVals)
                                                ELSE [1..1 -> DilationVals])
          /\ kernel \in (IF long = "kernel" THEN Vectors(KernelVals)
                                            ELSE [1..1 -> KernelVals])
          /\ stride \in (IF long = "stride" THEN Vectors(StrideVals)
                                            ELSE [1..1 -> StrideVals])
    /\ epochs = 1 /\ update_freq = 1 /\ save_freq = 1 /\ save_freq_str = FALSE
    /\ savepath = "None" /\ scheduler = "None" /\ load_model = "None"
    /\ nTrain = 1 /\ nTest = 1 /\ dirs = {}

Init ==
    /\ pc = "Main"
    /\ err = "none"
    /\ TrainInputs \/ DebugInputs
    /\ i = 0
    /\ index = Unbound
    /\ tpos = 0
    /\ epos = 0
    /\ train_loss = <<>>
    /\ total_loss = 0
    /\ test_loss = <<0, 1>>
    /\ save_folder = "None"
    /\ saved = <<>>
    /\ mkdirs = 0
    /\ schedSteps = 0
    /\ optSteps = 0
    /\ fwd = 0
    /\ bwd = 0
    /\ zeroGrads = 0
    /\ evalLog = <<>>
    /\ epochLog = <<>>
    /\ conv_layer_sizes = <<>>
    /\ n_channels = <<>>
    /\ layer = 0
    /\ printed = <<>>
    /\ sequential = FALSE
    /\ now = 0
    /\ runs = <<>>
    /\ folders = {}
    /\ ckpts = {}

\* Mutant of Raise: the exception is caught and the loop goes on.
RaiseSwallowed(e) == pc' = "Epoch" /\ err' = e

\* An exception leaves train (and __main__): nothing in the file catches it.
Raise(e) == pc' = "Failed" /\ err' = e

\* --------------------------------------------------------------- __main__

\* Lines 397, 404-438: no --debug-size; the two datasets are built.
MainLoadData ==
    /\ pc = "Main"
    /\ debug_size = <<>>
    /\ pc' = "Model"
    /\ UNCHANGED geomVars /\ UNCHANGED runVars
    /\ UNCHANGED <<err, args, i, index, tpos, epos, train_loss, total_loss,
                   test_loss, save_folder, dirs, saved, mkdirs,
                   schedSteps, optSteps, fwd, bwd, zeroGrads, evalLog, epochLog>>

\* Lines 443-469: a fresh MAPnet, or torch.load of args.load_model; a path
\* that does not exist raises ValueError.
MainModel ==
    /\ pc = "Model"
    /\ IF load_model = "missing"
         THEN Raise("ValueError")
         ELSE pc' = "Train" /\ err' = err
    /\ UNCHANGED geomVars /\ UNCHANGED runVars
    /\ UNCHANGED <<args, i, index, tpos, epos, train_loss, total_loss,
                   test_loss, save_folder, dirs, saved, mkdirs,
                   schedSteps, optSteps, fwd, bwd, zeroGrads, evalLog, epochLog>>

\* ------------------------------------------------------------------ train

\* Lines 65-71: DataLoader(..., shuffle=True) over an empty dataset. Whether
\* it is accepted depends on the installed torch: older releases raise
\* ValueError from the sampler, newer ones build a loader that yields nothing
\* (TrainSetup). Both outcomes are kept.
LoaderRejectsEmpty ==
    /\ pc = "Train"
    /\ nTrain = 0 \/ nTest = 0
    /\ Raise("ValueError")
    /\ UNCHANGED geomVars /\ UNCHANGED runVars
    /\ UNCHANGED <<args, i, index, tpos, epos, train_loss, total_loss,
                   test_loss, save_folder, dirs, saved, mkdirs,
                   schedSteps, optSteps, fwd, bwd, zeroGrads, evalLog, epochLog>>

\* Lines 65-96: loaders, test_loss = 0.0, optimizer, scheduler, run folder.
\* os.makedirs raises FileExistsError when the folder is there already.
TrainSetup ==
    /\ pc = "Train"
    /\ test_loss' = <<0, 1>>
    /\ IF savepath # "None"
         THEN IF Stamp \in dirs
                THEN /\ Raise("FileExistsError")
                     /\ UNCHANGED <<save_folder, dirs, mkdirs>>
                ELSE /\ save_folder' = Stamp
                     /\ dirs' = dirs \cup {Stamp}
                     /\ mkdirs' = mkdirs + 1
                     /\ pc' = "Epoch" /\ err' = err
         ELSE /\ save_folder' = "None"
              /\ pc' = "Epoch" /\ err' = err
              /\ UNCHANGED <<dirs, mkdirs>>
    /\ UNCHANGED geomVars /\ UNCHANGED runVars
    /\ UNCHANGED <<args, i, index, tpos, epos, train_loss, total_loss,
                   saved, schedSteps, optSteps, fwd, bwd, zeroGrads,
                   evalLog, epochLog>>

\* Lines 101-107: the next index of range(0, epochs); the scheduler step; a
\* fresh iterator over the training loader and an empty train_loss.
EpochBegin ==
    /\ pc = "Epoch"
    /\ LoopContinues(i, epochs)
    /\ schedSteps' = SchedulerStep(scheduler, schedSteps)
    /\ train_loss' = <<>>
    /\ tpos' = 0
    /\ pc' = "Batch"
    /\ UNCHANGED geomVars /\ UNCHANGED runVars
    /\ UNCHANGED <<err, args, i, index, epos, total_loss, test_loss,
                   save_folder, dirs, saved, mkdirs, optSteps,
                   fwd, bwd, zeroGrads, evalLog, epochLog>>

\* Line 101: the range is exhausted and train returns.
TrainReturn ==
    /\ pc = "Epoch"
    /\ ~LoopContinues(i, epochs)
    /\ pc' = "Done"
    /\ UNCHANGED geomVars /\ UNCHANGED runVars
    /\ UNCHANGED <<err, args, i, index, tpos, epos, train_loss, total_loss,
                   test_loss, save_folder, dirs, saved, mkdirs,
                   schedSteps, optSteps, fwd, bwd, zeroGrads, evalLog, epochLog>>

\* Line 111: enumerate(data_iterator) yields the next batch and binds index,
\* or is exhausted.
BatchNext ==
    /\ pc = "Batch"
    /\ IF tpos < nTrain
         THEN index' = tpos /\ pc' = "Forward"
         ELSE index' = index /\ pc' = "EvalGate"
    /\ UNCHANGED geomVars /\ UNCHANGED runVars
    /\ UNCHANGED <<err, args, i, tpos, epos, train_loss, total_loss,
                   test_loss, save_folder, dirs, saved, mkdirs,
                   schedSteps, optSteps, fwd, bwd, zeroGrads, evalLog, epochLog>>

\* Lines 112-117: y = model(x).
Forward ==
    /\ pc = "Forward"
    /\ fwd' = fwd + 1
    /\ pc' = "Loss"
    /\ UNCHANGED geomVars /\ UNCHANGED runVars
    /\ UNCHANGED <<err, args, i, index, tpos, epos, train_loss, total_loss,
                   test_loss, save_folder, dirs, saved, mkdirs,
                   schedSteps, optSteps, bwd, zeroGrads, evalLog, epochLog>>

\* Lines 113-117: the device transfer or the forward pass raises.
ForwardFails ==
    /\ pc = "Forward"
    /\ Raise("RuntimeError")
    /\ UNCHANGED geomVars /\ UNCHANGED runVars
    /\ UNCHANGED <<args, i, index, tpos, epos, train_loss, total_loss,
                   test_loss, save_folder, dirs, saved, mkdirs,
                   schedSteps, optSteps, fwd, bwd, zeroGrads, evalLog, epochLog>>

\* Lines 118-120: the loss of the batch is appended to train_loss.
Loss ==
    /\ pc = "Loss"
    /\ \E l \in LossVals : train_loss' = Append(train_loss, l)
    /\ pc' = "ZeroGrad"
    /\ UNCHANGED geomVars /\ UNCHANGED runVars
    /\ UNCHANGED <<err, args, i, index, tpos, epos, total_loss, test_loss,
                   save_folder, dirs, saved, mkdirs, schedSteps,
                   optSteps, fwd, bwd, zeroGrads, evalLog, epochLog>>

\* Line 121: model_optimizer.zero_grad().
ZeroGrad ==
    /\ pc = "ZeroGrad"
    /\ zeroGrads' = zeroGrads + 1
    /\ pc' = "Backward"
    /\ UNCHANGED geomVars /\ UNCHANGED runVars
    /\ UNCHANGED <<err, args, i, index, tpos, epos, train_loss, total_loss,
                   test_loss, save_folder, dirs, saved, mkdirs,
                   schedSteps, optSteps, fwd, bwd, evalLog, epochLog>>

\* Line 122: loss.backward().
Backward ==
    /\ pc = "Backward"
    /\ bwd' = bwd + 1
    /\ pc' = "OptStep"
    /\ UNCHANGED geomVars /\ UNCHANGED runVars
    /\ UNCHANGED <<err, args, i, index, tpos, epos, train_loss, total_loss,
                   test_loss, save_folder, dirs, saved, mkdirs,
                   schedSteps, optSteps, fwd, zeroGrads, evalLog, epochLog>>

\* Line 122: loss.backward() raises.
BackwardFails ==
    /\ pc = "Backward"
    /\ Raise("RuntimeError")
    /\ UNCHANGED geomVars /\ UNCHANGED runVars
    /\ UNCHANGED <<args, i, index, tpos, epos, train_loss, total_loss,
                   test_loss, save_folder, dirs, saved, mkdirs,
                   schedSteps, optSteps, fwd, bwd, zeroGrads, evalLog, epochLog>>

\* Lines 123-124: model_optimizer.step(); the batch is finished.
OptStep ==
    /\ pc = "OptStep"
    /\ optSteps' = OptimizerStep(optSteps)
    /\ tpos' = tpos + 1
    /\ pc' = "Batch"
    /\ UNCHANGED geomVars /\ UNCHANGED runVars
    /\ UNCHANGED <<err, args, i, index, epos, train_loss, total_loss,
                   test_loss, save_folder, dirs, saved, mkdirs,
                   schedSteps, fwd, bwd, zeroGrads, evalLog, epochLog>>

\* Lines 129-130: the evaluation gate; a modulo by zero raises.
EvalGate ==
    /\ pc = "EvalGate"
    /\ IF update_freq = 0
         THEN /\ Raise("ZeroDivisionError")
              /\ UNCHANGED <<total_loss, epos>>
         ELSE IF EvalDue(i, update_freq)
                THEN /\ total_loss' = 0
                     /\ epos' = 0
                     /\ pc' = "EvalBatch" /\ err' = err
                ELSE /\ pc' = "SaveGate" /\ err' = err
                     /\ UNCHANGED <<total_loss, epos>>
    /\ UNCHANGED geomVars /\ UNCHANGED runVars
    /\ UNCHANGED <<args, i, index, tpos, train_loss, test_loss, save_folder,
                   dirs, saved, mkdirs, schedSteps, optSteps, fwd, bwd, zeroGrads,
                   evalLog, epochLog>>

\* Mutant of EvalBatch: the test batch is trained on as well (zero_grad,
\* backward and an optimizer step after its forward pass).
EvalBatchTrains ==
    /\ pc = "EvalBatch"
    /\ IF epos < nTest
         THEN /\ index' = epos
              /\ fwd' = fwd + 1
              /\ \E l \in LossVals : total_loss' = total_loss + l
              /\ epos' = epos + 1
              /\ zeroGrads' = zeroGrads + 1
              /\ bwd' = bwd + 1
              /\ optSteps' = OptimizerStep(optSteps)
              /\ pc' = pc
         ELSE /\ pc' = "EvalStore"
              /\ UNCHANGED <<index, fwd, total_loss, epos, zeroGrads, bwd, optSteps>>
    /\ UNCHANGED geomVars /\ UNCHANGED runVars
    /\ UNCHANGED <<err, args, i, tpos, train_loss, test_loss, save_folder,
                   dirs, saved, mkdirs, schedSteps, evalLog, epochLog>>

\* Lines 131-138: one test batch: index is bound, the model is run forward
\* and the loss added to total_loss; or the test loader is exhausted.
EvalBatch ==
    /\ pc = "EvalBatch"
    /\ IF epos < nTest
         THEN /\ index' = epos
              /\ fwd' = fwd + 1
              /\ \E l \in LossVals : total_loss' = total_loss + l
              /\ epos' = epos + 1
              /\ pc' = pc
         ELSE /\ pc' = "EvalStore"
              /\ UNCHANGED <<index, fwd, total_loss, epos>>
    /\ UNCHANGED geomVars /\ UNCHANGED runVars
    /\ UNCHANGED <<err, args, i, tpos, train_loss, test_loss, save_folder,
                   dirs, saved, mkdirs, schedSteps, optSteps, bwd, zeroGrads, evalLog,
                   epochLog>>

\* Lines 133-137: the device transfer or the forward pass of a test batch raises.
EvalBatchFails ==
    /\ pc = "EvalBatch"
    /\ epos < nTest
    /\ Raise("RuntimeError")
    /\ UNCHANGED geomVars /\ UNCHANGED runVars
    /\ UNCHANGED <<args, i, index, tpos, epos, train_loss, total_loss,
                   test_loss, save_folder, dirs, saved, mkdirs,
                   schedSteps, optSteps, fwd, bwd, zeroGrads, evalLog, epochLog>>

\* Line 139: test_loss = total_loss/(index+1); index is whatever the last
\* for-loop of the function bound it to, and a NameError if none did.
EvalStore ==
    /\ pc = "EvalStore"
    /\ IF index = Unbound
         THEN /\ Raise("NameError")
              /\ UNCHANGED <<test_loss, evalLog>>
         ELSE /\ test_loss' = EvalLoss(total_loss, index)
              /\ evalLog' = Append(evalLog, i + 1)
              /\ pc' = "SaveGate" /\ err' = err
    /\ UNCHANGED geomVars /\ UNCHANGED runVars
    /\ UNCHANGED <<args, i, index, tpos, epos, train_loss, total_loss,
                   save_folder, dirs, saved, mkdirs, schedSteps,
                   optSteps, fwd, bwd, zeroGrads, epochLog>>

\* Lines 141-142: the checkpoint gate and torch.save; the modulo is evaluated
\* first: by a str it raises TypeError, by zero ZeroDivisionError. The epoch
\* ends here.
SaveGate ==
    /\ pc = "SaveGate"
    /\ IF save_freq_str
         THEN Raise("TypeError") /\ UNCHANGED <<saved, i, epochLog>>
         ELSE IF save_freq = 0
                THEN Raise("ZeroDivisionError") /\ UNCHANGED <<saved, i, epochLog>>
                ELSE /\ saved' = IF SaveDue(i, save_freq, savepath)
                                   THEN Append(saved, CheckpointName(i))
                                   ELSE saved
                     /\ i' = i + 1
                     /\ epochLog' = Append(epochLog, tpos)
                     /\ pc' = "Epoch" /\ err' = err
    /\ UNCHANGED geomVars /\ UNCHANGED runVars
    /\ UNCHANGED <<args, index, tpos, epos, train_loss, total_loss, test_loss,
                   save_folder, dirs, mkdirs, schedSteps,
                   optSteps, fwd, bwd, zeroGrads, evalLog>>

\* Line 142: torch.save raises (the file cannot be written).
SaveFails ==
    /\ pc = "SaveGate"
    /\ ~save_freq_str /\ save_freq # 0
    /\ SaveDue(i, save_freq, savepath)
    /\ Raise("OSError")
    /\ UNCHANGED geomVars /\ UNCHANGED runVars
    /\ UNCHANGED <<args, i, index, tpos, epos, train_loss, total_loss,
                   test_loss, save_folder, dirs, saved, mkdirs,
                   schedSteps, optSteps, fwd, bwd, zeroGrads, evalLog, epochLog>>

\* ------------------------------------------------------ print_network_size

\* Lines 397-398 and 345-363: --debug-size is given; the one-entry vectors
\* are repeated conv_layers times and the walk starts from (t, x, y, z).
WalkBroadcast ==
    /\ pc = "Main"
    /\ UNCHANGED runVars
    /\ debug_size # <<>>
    /\ padding' = Broadcast(padding, conv_layers)
    /\ dilation' = Broadcast(dilation, conv_layers)
    /\ kernel' = Broadcast(kernel, conv_layers)
    /\ stride' = Broadcast(stride, conv_layers)
    /\ conv_layer_sizes' = << <<debug_size[2], debug_size[3], debug_size[4]>> >>
    /\ n_channels' = <<debug_size[1]>>
    /\ layer' = 0
    /\ pc' = "Layer"
    /\ UNCHANGED <<err, args, i, index, tpos, epos, train_loss, total_loss,
                   test_loss, save_folder, dirs, saved, mkdirs,
                   schedSteps, optSteps, fwd, bwd, zeroGrads, evalLog, epochLog>>
    /\ UNCHANGED <<debug_size, even_padding, conv_layers, filters, printed>>

\* Lines 364-386: one layer of the walk. Indexing a vector past its end
\* raises IndexError: for the geometry vectors before the layer's output is
\* computed, for filters after it is appended and before it is printed.
WalkLayer ==
    /\ pc = "Layer"
    /\ UNCHANGED runVars
    /\ layer < conv_layers
    /\ LET k == layer + 1
           idims == conv_layer_sizes[Len(conv_layer_sizes)]
       IN IF k > Len(padding) \/ k > Len(dilation) \/ k > Len(kernel) \/ k > Len(stride)
            THEN /\ Raise("IndexError")
                 /\ UNCHANGED <<conv_layer_sizes, n_channels, layer, printed>>
            ELSE LET out == get_out_dims(idims, padding[k], dilation[k],
                                         kernel[k], stride[k])
                     dims == [a \in 1..3 |-> ToInt16(out[a])]
                 IN /\ conv_layer_sizes' = Append(conv_layer_sizes, dims)
                    /\ IF k > Len(filters)
                         THEN /\ Raise("IndexError")
                              /\ UNCHANGED <<n_channels, layer, printed>>
                         ELSE /\ n_channels' = Append(n_channels,
                                      NextChannels(n_channels[Len(n_channels)], filters[k]))
                              /\ printed' = Append(printed,
                                      [layer |-> layer,
                                       cin |-> n_channels[Len(n_channels)],
                                       idims |-> idims,
                                       cout |-> NextChannels(n_channels[Len(n_channels)], filters[k]),
                                       dims |-> dims])
                              /\ layer' = layer + 1
                              /\ pc' = pc /\ err' = err
    /\ UNCHANGED <<args, i, index, tpos, epos, train_loss, total_loss,
                   test_loss, save_folder, dirs, saved, mkdirs,
                   schedSteps, optSteps, fwd, bwd, zeroGrads, evalLog, epochLog>>
    /\ UNCHANGED <<debug_size, even_padding, conv_layers, filters, padding,
                   dilation, kernel, stride>>

\* Mutant of AfterWalk: no exit(), __main__ goes on to load the data.
AfterWalkFallsThrough == "Model"

\* Line 399: exit() after print_network_size(args).
AfterWalk == "Exit"

\* Lines 388-389 and 399: the flattened feature count is reported and the
\* program exits.
WalkReport ==
    /\ pc = "Layer"
    /\ UNCHANGED runVars
    /\ layer >= conv_layers
    /\ LET last == conv_layer_sizes[Len(conv_layer_sizes)]
           fc == (last[1] * last[2] * last[3]) * n_channels[Len(n_channels)]
       IN printed' = Append(printed, [fc |-> fc, half |-> HalfOf(fc)])
    /\ pc' = AfterWalk
    /\ UNCHANGED <<err, args, i, index, tpos, epos, train_loss, total_loss,
                   test_loss, save_folder, dirs, saved, mkdirs,
                   schedSteps, optSteps, fwd, bwd, zeroGrads, evalLog, epochLog>>
    /\ UNCHANGED <<debug_size, even_padding, conv_layers, filters, padding,
                   dilation, kernel, stride, conv_layer_sizes, n_channels,
                   layer>>

Next ==
    \/ WalkBroadcast
    \/ WalkLayer
    \/ WalkReport
    \/ MainLoadData
    \/ MainModel
    \/ LoaderRejectsEmpty
    \/ TrainSetup
    \/ EpochBegin
    \/ TrainReturn
    \/ BatchNext
    \/ Forward
    \/ ForwardFails
    \/ Loss
    \/ ZeroGrad
    \/ Backward
    \/ BackwardFails
    \/ OptStep
    \/ EvalGate
    \/ EvalBatch
    \/ EvalBatchFails
    \/ EvalStore
    \/ SaveGate
    \/ SaveFails

Spec == Init /\ [][Next]_vars

\* ------------------------------------------------- two calls of train

Runs == {1, 2}

\* Two calls of train on one machine, one after the other or side by side;
\* each with its own savepath, epochs and save_freq. No single run is
\* followed step by step here.
InitRuns ==
    /\ pc = "Main" /\ err = "none"
    /\ debug_size = <<>>
    /\ epochs = 0 /\ update_freq = 1 /\ save_freq = 1 /\ save_freq_str = FALSE
    /\ savepath = "None" /\ scheduler = "None" /\ load_model = "None"
    /\ nTrain = 0 /\ nTest = 0 /\ dirs = {}
    /\ even_padding = FALSE /\ conv_layers = 1 /\ filters = <<1>>
    /\ padding = <<0>> /\ dilation = <<1>> /\ kernel = <<3>> /\ stride = <<1>>
    /\ i = 0 /\ index = Unbound /\ tpos = 0 /\ epos = 0
    /\ train_loss = <<>> /\ total_loss = 0 /\ test_loss = <<0, 1>>
    /\ save_folder = "None" /\ saved = <<>> /\ mkdirs = 0
    /\ schedSteps = 0 /\ optSteps = 0 /\ fwd = 0 /\ bwd = 0
    /\ zeroGrads = 0
    /\ evalLog = <<>> /\ epochLog = <<>>
    /\ conv_layer_sizes = <<>> /\ n_channels = <<>> /\ layer = 0
    /\ printed = <<>>
    /\ sequential \in BOOLEAN
    /\ now = 0
    /\ runs \in [Runs -> [pc : {"Call"}, err : {"none"},
                          savepath : {"None", "out", "alt"},
                          epochs : 0..MaxEpochs,
                          save_freq : 1..MaxFreq,
                          save_folder : {NoFolder}, i : {0}]]
    /\ folders = {}
    /\ ckpts = {}

soloVars == <<pc, err, args, i, index, tpos, epos, train_loss, total_loss,
              test_loss, save_folder, dirs, saved, mkdirs, schedSteps,
              optSteps, fwd, bwd, zeroGrads, evalLog, epochLog, geomVars>>

\* The wall clock advances.
Tick ==
    /\ now < MaxTicks
    /\ now' = now + 1
    /\ UNCHANGED <<soloVars, sequential, runs, folders, ckpts>>

\* train is called; in the sequential case the second call is made once the
\* first has returned or raised.
RunCall(r) ==
    /\ runs[r].pc = "Call"
    /\ sequential => (r = 1 \/ runs[1].pc \in {"Done", "Failed"})
    /\ runs' = [runs EXCEPT ![r].pc = "Setup"]
    /\ UNCHANGED <<soloVars, sequential, now, folders, ckpts>>

\* Lines 92-93: with a savepath the folder name is made of the clock reading.
RunStamp(r) ==
    /\ runs[r].pc = "Setup"
    /\ IF runs[r].savepath # "None"
         THEN runs' = [runs EXCEPT ![r].save_folder =
                                       Join(runs[r].savepath, Strftime(now)),
                                   ![r].pc = "Makedirs"]
         ELSE runs' = [runs EXCEPT ![r].pc = "Epoch"]
    /\ UNCHANGED <<soloVars, sequential, now, folders, ckpts>>

\* Line 94: os.makedirs(save_folder).
RunMakedirs(r) ==
    /\ runs[r].pc = "Makedirs"
    /\ IF MakedirsRaises(runs[r].save_folder, folders)
         THEN /\ runs' = [runs EXCEPT ![r].pc = "Failed",
                                      ![r].err = "FileExistsError"]
              /\ folders' = folders
         ELSE /\ runs' = [runs EXCEPT ![r].pc = "Epoch"]
              /\ folders' = folders \cup {runs[r].save_folder}
    /\ UNCHANGED <<soloVars, sequential, now, ckpts>>

\* Lines 101-142: one epoch of the call, with its checkpoint if it is due.
RunEpoch(r) ==
    /\ runs[r].pc = "Epoch"
    /\ LoopContinues(runs[r].i, runs[r].epochs)
    /\ ckpts' = IF SaveDue(runs[r].i, runs[r].save_freq, runs[r].savepath)
                  THEN ckpts \cup {[folder |-> runs[r].save_folder,
                                    name |-> CheckpointName(runs[r].i),
                                    by |-> r]}
                  ELSE ckpts
    /\ runs' = [runs EXCEPT ![r].i = @ + 1]
    /\ UNCHANGED <<soloVars, sequential, now, folders>>

\* Line 101: the range is exhausted and the call returns.
RunReturn(r) ==
    /\ runs[r].pc = "Epoch"
    /\ ~LoopContinues(runs[r].i, runs[r].epochs)
    /\ runs' = [runs EXCEPT ![r].pc = "Done"]
    /\ UNCHANGED <<soloVars, sequential, now, folders, ckpts>>

NextRuns ==
    \/ Tick
    \/ \E r \in Runs : RunCall(r)
    \/ \E r \in Runs : RunStamp(r)
    \/ \E r \in Runs : RunMakedirs(r)
    \/ \E r \in Runs : RunEpoch(r)
    \/ \E r \in Runs : RunReturn(r)

SpecRuns == InitRuns /\ [][NextRuns]_vars

\* ------------------------------------------------------------- claims: train

InEpoch == pc \in {"Batch", "Forward", "Loss", "ZeroGrad", "Backward",
                   "OptStep", "EvalGate", "EvalBatch", "EvalStore", "SaveGate"}

\* The exceptions line 141-142 raise (with update_freq /= 0).
SaveGateErrors == {"TypeError", "OSError"} \cup
                  (IF update_freq # 0 THEN {"ZeroDivisionError"} ELSE {})

\* Epochs whose evaluation gate (lines 129-139) lies behind the run.
EpochsGated ==
    IF pc = "SaveGate" \/ (pc = "Failed" /\ err \in SaveGateErrors)
      THEN i + 1 ELSE i

\* C1: with update_freq > 0 the stored test loss is assigned at exactly the
\* epochs whose 1-based number is a multiple of update_freq, and no step at
\* any other place or epoch changes it.
C1_EvalCadence ==
    /\ [](update_freq > 0 => evalLog = Multiples(EpochsGated, update_freq))
    /\ [][update_freq > 0 /\ test_loss' # test_loss
            => pc = "EvalStore" /\ (i + 1) % update_freq = 0]_vars

C1_Witness ==
    /\ pc = "Done" /\ epochs = 3 /\ update_freq = 2
    /\ evalLog = <<2>> /\ test_loss # <<0, 1>>

\* C2: a completed run with a savepath and a positive save_freq has written
\* exactly the checkpoints named for the epochs k in 1..epochs that are
\* multiples of save_freq; without a savepath nothing is ever written.
C2_CheckpointFiles ==
    /\ (pc = "Done" /\ savepath # "None" /\ ~save_freq_str /\ save_freq > 0)
          => saved = Multiples(epochs, save_freq)
    /\ savepath = "None" => saved = <<>>

C2_Witness ==
    /\ pc = "Done" /\ savepath = "out" /\ epochs = 3 /\ save_freq = 1
    /\ saved = <<1, 2, 3>>

\* Steps left in the current epoch, and in the run: a variant of the loop.
EpochCost == 13 + nTest + 6 * nTrain

Rem ==
    CASE pc = "Epoch"     -> EpochCost - 1
      [] pc = "Batch"     -> 11 + nTest + 6 * (nTrain - tpos)
      [] pc = "Forward"   -> 10 + nTest + 6 * (nTrain - tpos)
      [] pc = "Loss"      -> 9 + nTest + 6 * (nTrain - tpos)
      [] pc = "ZeroGrad"  -> 8 + nTest + 6 * (nTrain - tpos)
      [] pc = "Backward"  -> 7 + nTest + 6 * (nTrain - tpos)
      [] pc = "OptStep"   -> 6 + nTest + 6 * (nTrain - tpos)
      [] pc = "EvalGate"  -> 5 + nTest
      [] pc = "EvalBatch" -> 3 + (nTest - epos)
      [] pc = "EvalStore" -> 2
      [] pc = "SaveGate"  -> 1
      [] OTHER            -> 0

Measure ==
    CASE pc = "Main"  -> (epochs + 1) * EpochCost + 3 + conv_layers
      [] pc = "Layer" -> (conv_layers - layer) + 1
      [] pc = "Model" -> (epochs + 1) * EpochCost + 2
      [] pc = "Train" -> (epochs + 1) * EpochCost + 1
      [] pc \in {"Done", "Failed", "Exit"} -> 0
      [] OTHER -> (epochs - i) * EpochCost + Rem

\* C3: a run that meets no failure has, on return, run the epoch loop
\* exactly `epochs` times with every training batch processed once in each
\* epoch; and the run always ends: a step is possible until it is Done or
\* has failed (or, under --debug-size, has exited), and every step lowers a
\* natural-valued measure.
C3_EpochLoopTerminates ==
    /\ [](pc = "Done" => /\ err = "none"
                         /\ i = epochs
                         /\ epochLog = [k \in 1..epochs |-> nTrain]
                         /\ optSteps = epochs * nTrain)
    /\ [](InEpoch => i < epochs /\ tpos <= nTrain)
    /\ [](pc \notin {"Done", "Failed", "Exit"} => ENABLED Next)
    /\ [](Measure >= 0)
    /\ [][Measure' < Measure]_vars

C3_Witness ==
    /\ pc = "Done" /\ epochs = 3 /\ nTrain = 2
    /\ epochLog = <<2, 2, 2>> /\ optSteps = 6

\* C4: after an evaluation pass the stored test loss is the total of that
\* pass's per-batch losses over the number of test batches of that pass.
C4_EvalDenominator ==
    (/\ update_freq > 0 /\ save_freq > 0 /\ ~save_freq_str
     /\ pc = "SaveGate" /\ evalLog # <<>> /\ evalLog[Len(evalLog)] = i + 1)
        => test_loss = <<total_loss, epos>>

\* Epochs that have begun (lines 101-104 executed).
EpochsBegun ==
    IF InEpoch \/ (pc = "Failed" /\ err \notin {"ValueError", "FileExistsError"})
      THEN i + 1 ELSE i

\* C5: with a scheduler the number of scheduler steps equals the number of
\* epochs begun, at every point of the run: the step of an epoch precedes
\* its first batch and a finished run has made `epochs` steps; without a
\* scheduler no step is ever made.
C5_SchedulerSteps ==
    /\ scheduler = "None" => schedSteps = 0
    /\ scheduler # "None" => schedSteps = EpochsBegun
    /\ (scheduler # "None" /\ pc = "Done") => schedSteps = epochs

C5_Witness ==
    /\ scheduler = "factory" /\ pc = "Forward" /\ tpos = 0 /\ i = 1
    /\ schedSteps = 2 /\ fwd = nTrain

\* C7: a run with a zero or negative update_freq or save_freq (over
\* non-empty datasets, for at least one epoch) does not run to completion.
C7_NonPositiveFreqFails ==
    (/\ epochs >= 1 /\ nTrain >= 1 /\ nTest >= 1
     /\ update_freq <= 0 \/ (~save_freq_str /\ save_freq <= 0))
        => pc # "Done"

\* C8: when a configuration error or a missing model path is raised, no
\* forward or backward computation has been performed.
C8_ErrorsBeforeCompute ==
    (/\ update_freq >= 0 /\ save_freq >= 0 /\ ~save_freq_str
     /\ nTrain >= 1 /\ nTest >= 1
     /\ pc = "Failed" /\ err \in {"ZeroDivisionError", "ValueError"})
        => fwd = 0 /\ bwd = 0

\* C10: the run folder is created at most once and before the first epoch:
\* it exists throughout the epoch loop and at every checkpoint write, and no
\* checkpoint name is written twice.
C10_FolderOnceNamesDistinct ==
    /\ mkdirs <= 1
    /\ pc \in {"Main", "Model", "Train"} => mkdirs = 0 /\ saved = <<>>
    /\ (savepath # "None" /\ (InEpoch \/ pc \in {"Epoch", "Done"}))
          => mkdirs = 1 /\ save_folder \in dirs
    /\ saved # <<>> => mkdirs = 1 /\ save_folder \in dirs
    /\ \A a, b \in DOMAIN saved : a # b => saved[a] # saved[b]
    /\ \A a \in DOMAIN saved : saved[a] \in 1..epochs

C10_Witness ==
    /\ savepath = "out" /\ mkdirs = 1 /\ Len(saved) = 2 /\ pc = "SaveGate"

\* C12: a failure ends the run at once: the step that raises changes no
\* counter of batches, evaluations or epochs and leaves the checkpoints
\* written and the folders as they are, and no step follows it (no retry,
\* no further batch, evaluation, epoch or checkpoint).
C12_FailureStopsRun ==
    /\ [](err # "none" <=> pc = "Failed")
    /\ [][err = "none"]_vars
    /\ [][err' # "none" =>
            /\ saved' = saved /\ dirs' = dirs /\ mkdirs' = mkdirs
            /\ i' = i /\ tpos' = tpos /\ epos' = epos
            /\ fwd' = fwd /\ bwd' = bwd /\ optSteps' = optSteps
            /\ schedSteps' = schedSteps
            /\ evalLog' = evalLog /\ epochLog' = epochLog]_vars

C12_Witness ==
    /\ pc = "Failed" /\ err = "OSError"
    /\ saved = <<1>> /\ i = 1 /\ optSteps = 2 * nTrain /\ nTrain >= 1

In01(b) == IF b THEN 1 ELSE 0

\* Training batches finished so far in the run.
BatchesDone == IF pc \in {"Epoch", "Done"} THEN i * nTrain ELSE i * nTrain + tpos

\* Forward passes made by the evaluation passes so far.
EvalForwards ==
    Len(evalLog) * nTest + (IF pc \in {"EvalBatch", "EvalStore"} THEN epos ELSE 0)

\* C16: in a run that has not failed the optimizer steps made are the
\* training batches finished, and inside a batch the steps come in the order
\* forward, loss, zero_grad, backward, optimizer step: each count is ahead
\* of the next one by at most one, exactly from its own place in the batch
\* on; a run that returns has made epochs * (training batches) steps.
C16_BatchStepOrder ==
    pc # "Failed" =>
        /\ optSteps = BatchesDone
        /\ bwd = optSteps + In01(pc = "OptStep")
        /\ zeroGrads = optSteps + In01(pc \in {"Backward", "OptStep"})
        /\ Len(train_loss) = tpos + In01(pc \in {"ZeroGrad", "Backward", "OptStep"})
        /\ fwd = optSteps + EvalForwards
                  + In01(pc \in {"Loss", "ZeroGrad", "Backward", "OptStep"})
        /\ pc = "Done" => optSteps = epochs * nTrain

C16_Witness ==
    /\ pc = "Done" /\ epochs = 3 /\ nTrain = 2
    /\ optSteps = 6 /\ bwd = 6 /\ zeroGrads = 6

InEval == pc \in {"EvalGate", "EvalBatch", "EvalStore"}

\* C17: no step of the evaluation pass (its gate, its batches, the store of
\* line 139) makes an optimizer step, a zero_grad, a backward pass or a
\* scheduler step, writes a checkpoint or a folder, or touches the epoch's
\* train_loss list or the loop counters; the stored test loss changes only
\* at the store, to total_loss/(index+1).
C17_EvalForwardOnly ==
    /\ [][InEval =>
            /\ optSteps' = optSteps /\ zeroGrads' = zeroGrads /\ bwd' = bwd
            /\ schedSteps' = schedSteps
            /\ saved' = saved /\ dirs' = dirs /\ mkdirs' = mkdirs
            /\ train_loss' = train_loss /\ epochLog' = epochLog
            /\ i' = i /\ tpos' = tpos]_vars
    /\ [][(InEval /\ test_loss' # test_loss) =>
            /\ pc = "EvalStore"
            /\ test_loss' = EvalLoss(total_loss, index)]_vars
    /\ [][(pc = "EvalBatch" /\ pc' = "EvalBatch") => fwd' = fwd + 1]_vars

C17_Witness ==
    /\ pc = "SaveGate" /\ evalLog # <<>> /\ evalLog[Len(evalLog)] = i + 1
    /\ nTest = 2 /\ epos = 2 /\ nTrain = 2 /\ i = 1
    /\ optSteps = 4 /\ zeroGrads = 4 /\ Len(train_loss) = 2
    /\ test_loss # <<0, 1>>

\* C18: a step that writes a checkpoint writes the one named i+1, at the
\* end of epoch i+1: every epoch so far processed all its training batches,
\* the evaluation pass of this epoch, if its gate was open, has stored its
\* loss, and the model has received (i+1) * nTrain optimizer steps.
C18_CheckpointAfterEpoch ==
    [][saved' # saved =>
        /\ pc = "SaveGate"
        /\ saved' = Append(saved, i + 1)
        /\ tpos = nTrain /\ epochLog = [k \in 1..i |-> nTrain]
        /\ optSteps = (i + 1) * nTrain /\ bwd = optSteps
        /\ optSteps' = optSteps
        /\ (update_freq # 0 /\ EvalDue(i, update_freq))
              => /\ evalLog # <<>> /\ evalLog[Len(evalLog)] = i + 1
                 /\ epos = nTest]_vars

C18_Witness ==
    /\ pc = "Epoch" /\ save_freq = 2 /\ saved = <<2>> /\ i = 2
    /\ nTrain = 2 /\ optSteps = 4 /\ update_freq = 1 /\ evalLog = <<1, 2>>

\* --------------------------------------------------------- claims: shape walk

\* A geometry vector whose length is neither 1 nor conv_layers.
Malformed ==
    \E v \in {<<"p", padding>>, <<"d", dilation>>, <<"k", kernel>>, <<"s", stride>>} :
        Len(v[2]) \notin {1, conv_layers}

\* C6: with a geometry vector of a length other than 1 and conv_layers the
\* walk computes and reports the output dimensions of no layer (and does
\* not run to its end).
C6_MalformedFailsFirst ==
    (debug_size # <<>> /\ Malformed)
        => Len(conv_layer_sizes) <= 1 /\ printed = <<>> /\ pc # "Exit"

\* C9: with --even-padding every layer of stride 1 the walk reports has
\* output spatial dims equal to its input spatial dims (stated for the
\* layers where a symmetric padding can do it: dilation*(kernel-1) even).
C9_EvenPaddingPreserves ==
    (even_padding /\ pc \in {"Layer", "Exit"})
        => \A k \in 1..layer :
              (stride[k] = 1 /\ (dilation[k] * (kernel[k] - 1)) % 2 = 0)
                  => printed[k].dims = printed[k].idims

\* ------------------------------------------------------- claims: two calls

\* The call r has got past line 94 (or did not have to run it).
PastMakedirs(r) == runs[r].pc \in {"Epoch", "Done"}

\* C11: of two calls with the same savepath made one after the other, the
\* second does not fail on the run folder of the first and does not get the
\* same folder.
C11_SequentialFoldersFresh ==
    (/\ sequential
     /\ runs[1].savepath # "None" /\ runs[2].savepath = runs[1].savepath
     /\ runs[1].epochs >= 1 /\ runs[1].pc = "Done"
     /\ runs[2].pc \in {"Epoch", "Done", "Failed"})
        => /\ runs[2].err # "FileExistsError"
           /\ runs[2].save_folder # runs[1].save_folder

\* C19: of the calls that computed the same run folder at most one gets
\* past os.makedirs, any other that has run it has failed there with
\* FileExistsError before its first epoch, and no folder ever holds
\* checkpoints of two calls.
C19_OneRunPerFolder ==
    /\ \A r, q \in Runs :
          (/\ r # q
           /\ runs[r].save_folder # NoFolder
           /\ runs[r].save_folder = runs[q].save_folder
           /\ PastMakedirs(r))
              => /\ ~PastMakedirs(q)
                 /\ runs[q].pc = "Failed"
                       => runs[q].err = "FileExistsError" /\ runs[q].i = 0
    /\ \A c, d \in ckpts : c.folder = d.folder => c.by = d.by
    /\ \A c \in ckpts : c.folder \in folders /\ c.folder = runs[c.by].save_folder

C19_Witness ==
    /\ ~sequential
    /\ runs[1].save_folder = runs[2].save_folder
    /\ runs[1].save_folder # NoFolder
    /\ \E r \in Runs :
          /\ runs[r].pc = "Failed" /\ runs[r].err = "FileExistsError"
          /\ \E q \in Runs \ {r} :
                /\ runs[q].pc = "Done"
                /\ \E c \in ckpts : c.by = q /\ c.folder = runs[q].save_folder

\* C13: with --debug-size the program only walks the shapes and stops: it
\* never reaches the data loading, the model or train, performs nothing of
\* a run, can always take the next step of the walk, and is at its exit
\* only with every layer and the final count reported; the only failure is
\* the IndexError of the walk itself.
C13_DebugSizeOnlyWalks ==
    debug_size # <<>> =>
        /\ pc \in {"Main", "Layer", "Exit", "Failed"}
        /\ fwd = 0 /\ bwd = 0 /\ optSteps = 0 /\ schedSteps = 0
        /\ mkdirs = 0 /\ saved = <<>> /\ evalLog = <<>> /\ i = 0
        /\ pc = "Failed" => err = "IndexError"
        /\ pc = "Main" => ENABLED WalkBroadcast
        /\ pc = "Layer" => ENABLED (WalkLayer \/ WalkReport)
        /\ pc = "Exit" => layer = conv_layers /\ Len(printed) = conv_layers + 1

C13_Witness ==
    /\ debug_size # <<>> /\ pc = "Exit" /\ conv_layers = 3
    /\ Len(printed) = 4 /\ fwd = 0

\* The product of the first n entries of f.
RECURSIVE Prod(_, _)
Prod(f, n) == IF n = 0 THEN 1 ELSE Prod(f, n - 1) * f[n]

\* C15: with broadcastable layer vectors and one filter per layer, after n
\* layers of the walk the channel counts are: the initial channels first,
\* each next one the previous times that layer's filter, so the last is the
\* initial channels times the product of the first n filters; and these
\* are the counts the walk reports.
C15_ChannelProduct ==
    (/\ debug_size # <<>> /\ ~Malformed /\ Len(filters) = conv_layers
     /\ pc \in {"Layer", "Exit"})
        => /\ Len(n_channels) = layer + 1
           /\ n_channels[1] = debug_size[1]
           /\ \A k \in 1..layer :
                 /\ n_channels[k + 1] = n_channels[k] * filters[k]
                 /\ printed[k].cin = n_channels[k]
                 /\ printed[k].cout = n_channels[k + 1]
           /\ n_channels[layer + 1] = debug_size[1] * Prod(filters, layer)

C15_Witness ==
    /\ pc = "Exit" /\ conv_layers = 3 /\ filters = <<2, 1, 2>>
    /\ n_channels = <<2, 4, 4, 8>> /\ printed[3].cout = 8

====
